---- MODULE Spec2Model ----
(***************************************************************************)
(* A model of mozalert's check scheduler (mozalert/base.py, BaseCheck),    *)
(* its supervisor (mozalert/controller.py, Controller) and its metrics     *)
(* consumer (mozalert/metrics.py, MetricsThread).                          *)
(*                                                                         *)
(* The specifications share the variables:                                 *)
(*   Spec          one BaseCheck, its timers, its executions, terminate()  *)
(*   SpecBuild     the same, from the call of the constructor on           *)
(*   SpecCrd       the same, for a subclass that writes the custom resource *)
(*   SpecQueue     a fresh BaseCheck with a metrics queue and its consumer *)
(*   SpecScenario  the same, with max_attempts = 3 and FAIL, FAIL, FAIL, OK *)
(*   SpecZero      a fresh BaseCheck whose intervals are zero              *)
(*   SpecCtl       Controller.run with its units and their workers         *)
(*   SpecRestart   the same, with a second caller of restart_thread        *)
(*   SpecMet       MetricsThread.run with the producers of its queue       *)
(*   SpecTel       BaseCheck.extract_telemetry_from_logs on bounded texts  *)
(* Each keeps the variables of the other components at their initial       *)
(* values.                                                                 *)
(***************************************************************************)
EXTENDS Integers, Sequences, FiniteSets, TLC

VARIABLES
    \* ---- BaseCheck
    config,         \* self.config: the intervals and max_attempts
    status,         \* self.status.status
    attempt,        \* self.status.attempt
    escalated,      \* self.escalated
    next_interval,  \* self._next_interval
    shutdown,       \* self.shutdown
    thread,         \* self._thread: the Timer made last
    timers,         \* the state of every threading.Timer made so far
    pc,             \* where the execution of check() on each Timer stands
    job_raised,     \* per execution, until the chain: run_job's except branch was taken
    labels,         \* per execution: the local __labels__
    term_pc,        \* where the caller of terminate() stands
    term_join,      \* the join argument of terminate()
    term_target,    \* the Timer that terminate() is joining
    has_queue,      \* self.metrics_queue is a queue, not None
    pre_status,     \* self._pre_status: the keyword argument, {} once it is read
    publishes,      \* set_crd_status is overridden to write the custom resource
    crd,            \* the status the custom resource holds
    metrics_queue,  \* the queue shared by the checks and MetricsThread
    \* ---- Controller
    ctl_shutdown,   \* what Controller.shutdown() returns
    threads,        \* Controller.threads: name -> namespace record
    workers,        \* every worker object constructed so far
    ctl_pc,         \* where Controller.run stands
    ctl_i,          \* the position of the for loop in Controller.threads.keys()
    pass_dead,      \* history: the dead worker each unit had when the poll began
    join_target,    \* the worker the liveness loop's restart_thread is joining
    op,             \* an explicit caller of restart_thread: its position, name and join
    \* ---- MetricsThread
    gateway,        \* self.prometheus_gateway is configured
    registry,       \* the samples of the CollectorRegistry
    met_pc,         \* where MetricsThread.run stands
    metric,         \* the local variable metric
    met_shutdown,   \* what MetricsThread.shutdown() returns
    sink,           \* the snapshot the push gateway received last
    puts,           \* history: the number of items the producers have put
    \* ---- extract_telemetry_from_logs
    tel_logs,       \* the argument logs, a text
    tel_out         \* self._logs and self.telemetry once the method has returned

check_vars == <<config, status, attempt, escalated, next_interval, shutdown, thread,
                timers, pc, job_raised, labels, term_pc, term_join, term_target,
                has_queue, pre_status, publishes, crd>>
ctl_vars == <<ctl_shutdown, threads, workers, ctl_pc, ctl_i, pass_dead>>
met_vars == <<gateway, registry, met_pc, metric, met_shutdown, sink, puts>>
tel_vars == <<tel_logs, tel_out>>
restart_vars == <<join_target, op>>
vars == <<check_vars, metrics_queue, ctl_vars, met_vars, tel_vars, restart_vars>>

(***************************************************************************)
(* Bounds of the model.                                                    *)
(***************************************************************************)
\* the Timers one check may create (its constructor's and its executions')
MaxTimers == 4
\* the largest max_attempts a configuration holds
MaxCfgAttempts == 3
\* the largest attempt a persisted pre_status holds
MaxPreAttempt == 1
\* the capacity of the metrics queue in Spec: a put blocks on a full queue
MaxQueue == 3

\* the value of a MetricsQueueItem made without value=: None
NoValue == -1

(***************************************************************************)
(* BaseCheck                                                               *)
(***************************************************************************)
StatusValues == {"OK", "WARNING", "CRITICAL", "UNKNOWN"}

\* the status of a Status() that parsed no pre_status
DefaultStatus == "UNKNOWN"

TimerIds == 1..MaxTimers

\* the configurations: the intervals of the scenario, every max_attempts >= 1
Configs ==
    { [check_interval |-> 60, retry_interval |-> 10,
       notification_interval |-> 300, max_attempts |-> m] : m \in 1..MaxCfgAttempts }

Intervals(cfg) == {cfg.check_interval, cfg.retry_interval, cfg.notification_interval}

\* the pre_status a restarted controller read back from the custom resource
PreStatuses(cfg) ==
    [status : StatusValues, attempt : 0..MaxPreAttempt, next_interval : Intervals(cfg)]

\* the labels every metric of this check carries
CheckName == "a"
CheckNamespace == "ns"

MakeLabels(st, esc) ==
    [name |-> CheckName, namespace |-> CheckNamespace, status |-> st, escalated |-> esc]

\* __labels__ of an execution that has not built it yet
NoLabels == MakeLabels("", FALSE)

\* the branch of the if/elif chain of check() that is taken
BranchOffByOne(ok, esc, att, maxa) ==
    IF ok /\ esc THEN "recovery"
    ELSE IF ok THEN "passed"
    ELSE IF att > maxa THEN "escalate"
    ELSE "retry"

Branch(ok, esc, att, maxa) ==
    IF ok /\ esc THEN "recovery"
    ELSE IF ok THEN "passed"
    ELSE IF att >= maxa THEN "escalate"
    ELSE "retry"

escalateIgnoresRecovery(recovery) == TRUE

\* escalate(recovery): self.escalated = not recovery
escalate(recovery) == ~recovery

\* self.escalated after the chain
EscalatedOf(ok, esc, att, maxa) ==
    CASE Branch(ok, esc, att, maxa) = "recovery" -> escalate(TRUE)
      [] Branch(ok, esc, att, maxa) = "passed" -> esc
      [] Branch(ok, esc, att, maxa) = "escalate" -> escalate(FALSE)
      [] OTHER -> esc

AttemptOfKeptOnRecovery(ok, esc, att, maxa) ==
    CASE Branch(ok, esc, att, maxa) = "recovery" -> att
      [] Branch(ok, esc, att, maxa) = "passed" -> 0
      [] OTHER -> att

\* self.status.attempt after the chain
AttemptOf(ok, esc, att, maxa) ==
    CASE Branch(ok, esc, att, maxa) = "recovery" -> 0
      [] Branch(ok, esc, att, maxa) = "passed" -> 0
      [] OTHER -> att

NextIntervalOfSwapped(cfg, ok, esc, att) ==
    CASE Branch(ok, esc, att, cfg.max_attempts) = "recovery" -> cfg.check_interval
      [] Branch(ok, esc, att, cfg.max_attempts) = "passed" -> cfg.check_interval
      [] Branch(ok, esc, att, cfg.max_attempts) = "escalate" -> cfg.retry_interval
      [] OTHER -> cfg.notification_interval

\* self._next_interval after the chain
NextIntervalOf(cfg, ok, esc, att) ==
    CASE Branch(ok, esc, att, cfg.max_attempts) = "recovery" -> cfg.check_interval
      [] Branch(ok, esc, att, cfg.max_attempts) = "passed" -> cfg.check_interval
      [] Branch(ok, esc, att, cfg.max_attempts) = "escalate" -> cfg.notification_interval
      [] OTHER -> cfg.retry_interval

\* MetricsQueueItem(key, **labels, value=value)
MetricsQueueItem(key, lab, value) ==
    [type |-> "MetricsQueueItem", key |-> key, labels |-> lab, value |-> value]

EmittedItemsValueFromLabel(lab, st, esc) ==
    << MetricsQueueItem("mozalert_check_runtime", lab, 0),
       MetricsQueueItem("mozalert_check_" \o st \o "_count", lab, NoValue),
       MetricsQueueItem("mozalert_check_escalations", lab,
                        IF lab.escalated THEN 1 ELSE 0) >>

\* the three puts of check(); self.telemetry is {} and self._runtime is 0 seconds
EmittedItems(lab, st, esc) ==
    << MetricsQueueItem("mozalert_check_runtime", lab, 0),
       MetricsQueueItem("mozalert_check_" \o st \o "_count", lab, NoValue),
       MetricsQueueItem("mozalert_check_escalations", lab, IF esc THEN 1 ELSE 0) >>

\* a Timer thread that has ended: join() on it returns
Ended(t) == timers[t] \in {"finished", "cancelled", "dead"}

\* self._pre_status of a check that was given none, or has read it: {}
NoPreStatus ==
    [given |-> FALSE, status |-> DefaultStatus, attempt |-> 0, next_interval |-> 0,
     escalated |-> FALSE]

\* what set_crd_status writes to the custom resource: the CheckStatus
CrdOf(st, att, ni) ==
    [published |-> TRUE, status |-> st, attempt |-> att, next_interval |-> ni]

\* the custom resource of a check that has published nothing
NoCrd == [published |-> FALSE, status |-> DefaultStatus, attempt |-> 0, next_interval |-> 0]

\* the mock set_crd_status of BaseCheck: it logs and writes nothing
MockCrd ==
    /\ publishes = FALSE
    /\ crd = NoCrd

\* __init__: Status(), parse_pre_status, start_thread, set_crd_status
InitCheck ==
    /\ config \in Configs
    /\ \/ /\ status = DefaultStatus
          /\ attempt = 0
          /\ next_interval = config.check_interval
       \/ \E pre \in PreStatuses(config) :
             /\ status = pre.status
             /\ attempt = pre.attempt
             /\ next_interval = pre.next_interval
    /\ escalated = FALSE
    /\ pre_status = NoPreStatus
    /\ shutdown = FALSE
    /\ thread = 1
    /\ timers = [t \in TimerIds |-> IF t = 1 THEN "armed" ELSE "none"]
    /\ pc = [t \in TimerIds |-> "idle"]
    /\ job_raised = [t \in TimerIds |-> FALSE]
    /\ labels = [t \in TimerIds |-> NoLabels]
    /\ term_pc = "idle"
    /\ term_join = FALSE
    /\ term_target = 0

\* a BaseCheck that nobody runs, for the specifications of the other components
IdleCheck ==
    /\ config = [check_interval |-> 60, retry_interval |-> 10,
                 notification_interval |-> 300, max_attempts |-> 1]
    /\ status = DefaultStatus
    /\ attempt = 0
    /\ next_interval = config.check_interval
    /\ escalated = FALSE
    /\ shutdown = FALSE
    /\ thread = 0
    /\ timers = [t \in TimerIds |-> "none"]
    /\ pc = [t \in TimerIds |-> "idle"]
    /\ job_raised = [t \in TimerIds |-> FALSE]
    /\ labels = [t \in TimerIds |-> NoLabels]
    /\ term_pc = "idle"
    /\ term_join = FALSE
    /\ term_target = 0
    /\ has_queue = FALSE
    /\ pre_status = NoPreStatus
    /\ MockCrd

\* __init__ without pre_status, for the configuration cfg
FreshCheck(cfg) ==
    /\ config = cfg
    /\ status = DefaultStatus
    /\ attempt = 0
    /\ next_interval = cfg.check_interval
    /\ escalated = FALSE
    /\ pre_status = NoPreStatus
    /\ shutdown = FALSE
    /\ thread = 1
    /\ timers = [t \in TimerIds |-> IF t = 1 THEN "armed" ELSE "none"]
    /\ pc = [t \in TimerIds |-> "idle"]
    /\ job_raised = [t \in TimerIds |-> FALSE]
    /\ labels = [t \in TimerIds |-> NoLabels]
    /\ term_pc = "idle"
    /\ term_join = FALSE
    /\ term_target = 0

\* the pre_status keyword argument of a check created after a controller restart:
\* the persisted status, and whether the check was escalated before the restart
PreStatusKwargs(cfg) ==
    [given : {TRUE}, status : StatusValues, attempt : 0..MaxPreAttempt,
     next_interval : Intervals(cfg), escalated : BOOLEAN]

\* before __init__ runs: the keyword arguments are chosen, nothing is built
InitUnbuilt ==
    /\ config \in Configs
    /\ pre_status \in {NoPreStatus} \cup PreStatusKwargs(config)
    /\ status = DefaultStatus
    /\ attempt = 0
    /\ next_interval = config.check_interval
    /\ escalated = FALSE
    /\ shutdown = FALSE
    /\ thread = 0
    /\ timers = [t \in TimerIds |-> "none"]
    /\ pc = [t \in TimerIds |-> "idle"]
    /\ job_raised = [t \in TimerIds |-> FALSE]
    /\ labels = [t \in TimerIds |-> NoLabels]
    /\ term_pc = "idle"
    /\ term_join = FALSE
    /\ term_target = 0

ConstructStartsTwoTimers ==
    /\ thread = 0
    /\ escalated' = FALSE
    /\ shutdown' = FALSE
    /\ IF pre_status.given
       THEN /\ status' = pre_status.status
            /\ attempt' = pre_status.attempt
            /\ next_interval' = pre_status.next_interval
       ELSE /\ status' = DefaultStatus
            /\ attempt' = 0
            /\ next_interval' = config.check_interval
    /\ pre_status' = NoPreStatus
    /\ thread' = 2
    /\ timers' = [timers EXCEPT ![1] = "armed", ![2] = "armed"]
    /\ crd' = IF publishes THEN CrdOf(status', attempt', next_interval') ELSE crd
    /\ UNCHANGED <<config, pc, job_raised, labels, term_pc, term_join, term_target,
                   has_queue, metrics_queue, publishes>>
    /\ UNCHANGED <<ctl_vars, met_vars, tel_vars, restart_vars>>

\* __init__, whole: escalated = False, Status(), parse_pre_status, start_thread,
\* set_crd_status
Construct ==
    /\ thread = 0
    /\ escalated' = FALSE
    /\ shutdown' = FALSE
    /\ IF pre_status.given
       THEN /\ status' = pre_status.status
            /\ attempt' = pre_status.attempt
            /\ next_interval' = pre_status.next_interval
       ELSE /\ status' = DefaultStatus
            /\ attempt' = 0
            /\ next_interval' = config.check_interval
    /\ pre_status' = NoPreStatus
    /\ thread' = 1
    /\ timers' = [timers EXCEPT ![1] = "armed"]
    /\ crd' = IF publishes THEN CrdOf(status', attempt', next_interval') ELSE crd
    /\ UNCHANGED <<config, pc, job_raised, labels, term_pc, term_join, term_target,
                   has_queue, metrics_queue, publishes>>
    /\ UNCHANGED <<ctl_vars, met_vars, tel_vars, restart_vars>>

\* Timer t fires and check() begins: self.status.attempt += 1
CheckStart(t) ==
    /\ timers[t] = "armed"
    /\ timers' = [timers EXCEPT ![t] = "running"]
    /\ attempt' = attempt + 1
    /\ pc' = [pc EXCEPT ![t] = "run_job"]
    /\ UNCHANGED <<config, status, escalated, next_interval, shutdown, thread,
                   job_raised, labels, term_pc, term_join, term_target, has_queue, metrics_queue,
                   pre_status, publishes, crd>>
    /\ UNCHANGED <<ctl_vars, met_vars, tel_vars, restart_vars>>

\* run_job returns, having left the job's result in self.status.status
RunJobReturns(t, result) ==
    /\ pc[t] = "run_job"
    /\ status' = result
    /\ pc' = [pc EXCEPT ![t] = "delete_job"]
    /\ UNCHANGED <<config, attempt, escalated, next_interval, shutdown, thread, timers,
                   job_raised, labels, term_pc, term_join, term_target, has_queue, metrics_queue,
                   pre_status, publishes, crd>>
    /\ UNCHANGED <<ctl_vars, met_vars, tel_vars, restart_vars>>

\* run_job raises: the except branch logs, the status is what it was
RunJobRaises(t) ==
    /\ pc[t] = "run_job"
    /\ job_raised' = [job_raised EXCEPT ![t] = TRUE]
    /\ pc' = [pc EXCEPT ![t] = "delete_job"]
    /\ UNCHANGED <<config, status, attempt, escalated, next_interval, shutdown, thread,
                   timers, labels, term_pc, term_join, term_target, has_queue, metrics_queue,
                   pre_status, publishes, crd>>
    /\ UNCHANGED <<ctl_vars, met_vars, tel_vars, restart_vars>>

\* self.delete_job() returns
DeleteJobReturns(t) ==
    /\ pc[t] = "delete_job"
    /\ pc' = [pc EXCEPT ![t] = "decide"]
    /\ UNCHANGED <<config, status, attempt, escalated, next_interval, shutdown, thread,
                   timers, job_raised, labels, term_pc, term_join, term_target,
                   has_queue, metrics_queue,
                   pre_status, publishes, crd>>
    /\ UNCHANGED <<ctl_vars, met_vars, tel_vars, restart_vars>>

\* self.delete_job() raises: nothing catches it, the Timer thread ends in check()
DeleteJobRaises(t) ==
    /\ pc[t] = "delete_job"
    /\ pc' = [pc EXCEPT ![t] = "raised"]
    /\ timers' = [timers EXCEPT ![t] = "dead"]
    /\ UNCHANGED <<config, status, attempt, escalated, next_interval, shutdown, thread,
                   job_raised, labels, term_pc, term_join, term_target, has_queue, metrics_queue,
                   pre_status, publishes, crd>>
    /\ UNCHANGED <<ctl_vars, met_vars, tel_vars, restart_vars>>

\* __labels__ is built, then the if/elif chain decides
Decide(t) ==
    /\ pc[t] = "decide"
    /\ labels' = [labels EXCEPT ![t] = MakeLabels(status, escalated)]
    /\ escalated' = EscalatedOf(status = "OK", escalated, attempt, config.max_attempts)
    /\ attempt' = AttemptOf(status = "OK", escalated, attempt, config.max_attempts)
    /\ next_interval' = NextIntervalOf(config, status = "OK", escalated, attempt)
    /\ job_raised' = [job_raised EXCEPT ![t] = FALSE]
    /\ pc' = [pc EXCEPT ![t] = "metrics"]
    /\ UNCHANGED <<config, status, shutdown, thread, timers,
                   term_pc, term_join, term_target, has_queue, metrics_queue,
                   pre_status, publishes, crd>>
    /\ UNCHANGED <<ctl_vars, met_vars, tel_vars, restart_vars>>

\* if self.metrics_queue: the puts, the last use of __labels__; then
\* self.status.next_check
EmitMetrics(t) ==
    /\ pc[t] = "metrics"
    /\ IF has_queue
       THEN /\ Len(metrics_queue) + 3 <= MaxQueue
            /\ metrics_queue' = metrics_queue \o EmittedItems(labels[t], status, escalated)
       ELSE UNCHANGED metrics_queue
    /\ labels' = [labels EXCEPT ![t] = NoLabels]
    /\ pc' = [pc EXCEPT ![t] = "resched"]
    /\ UNCHANGED <<config, status, attempt, escalated, next_interval, shutdown, thread,
                   timers, job_raised, term_pc, term_join, term_target, has_queue,
                   pre_status, publishes, crd>>
    /\ UNCHANGED <<ctl_vars, met_vars, tel_vars, restart_vars>>

\* if not shutdown(): the test, by itself
ReschedTest(t) ==
    /\ pc[t] = "resched"
    /\ IF shutdown
       THEN /\ pc' = [pc EXCEPT ![t] = "done"]
            /\ timers' = [timers EXCEPT ![t] = "finished"]
       ELSE /\ pc' = [pc EXCEPT ![t] = "start_thread"]
            /\ UNCHANGED timers
    /\ UNCHANGED <<job_raised, labels, config, status, attempt, escalated, next_interval, shutdown, thread,
                   term_pc, term_join, term_target, has_queue, metrics_queue,
                   pre_status, publishes, crd>>
    /\ UNCHANGED <<ctl_vars, met_vars, tel_vars, restart_vars>>

\* start_thread: a new Timer becomes self._thread and is started
StartThread(t) ==
    /\ pc[t] = "start_thread"
    /\ thread < MaxTimers
    /\ thread' = thread + 1
    /\ timers' = [timers EXCEPT ![thread + 1] = "armed"]
    /\ pc' = [pc EXCEPT ![t] = "set_crd_status"]
    /\ UNCHANGED <<config, status, attempt, escalated, next_interval, shutdown,
                   job_raised, labels, term_pc, term_join, term_target, has_queue, metrics_queue,
                   pre_status, publishes, crd>>
    /\ UNCHANGED <<ctl_vars, met_vars, tel_vars, restart_vars>>

\* set_crd_status, then check() returns: its locals are gone, the Timer thread ends
SetCrdStatus(t) ==
    /\ pc[t] = "set_crd_status"
    /\ pc' = [pc EXCEPT ![t] = "done"]
    /\ timers' = [timers EXCEPT ![t] = "finished"]
    /\ crd' = IF publishes THEN CrdOf(status, attempt, next_interval) ELSE crd
    /\ UNCHANGED <<job_raised, labels, config, status, attempt, escalated, next_interval,
                   shutdown, thread, term_pc, term_join, term_target, has_queue,
                   metrics_queue, pre_status, publishes>>
    /\ UNCHANGED <<ctl_vars, met_vars, tel_vars, restart_vars>>

\* terminate(join): self.shutdown = True
TerminateMark(join) ==
    /\ term_pc = "idle"
    /\ shutdown' = TRUE
    /\ term_join' = join
    /\ term_pc' = "cancel"
    /\ UNCHANGED <<config, status, attempt, escalated, next_interval, thread, timers, pc,
                   job_raised, labels, term_target, has_queue, metrics_queue,
                   pre_status, publishes, crd>>
    /\ UNCHANGED <<ctl_vars, met_vars, tel_vars, restart_vars>>

\* self._thread.cancel(): it stops a Timer that has not fired, and no other
TerminateCancel ==
    /\ term_pc = "cancel"
    /\ timers' = IF timers[thread] = "armed"
                 THEN [timers EXCEPT ![thread] = "cancelled"]
                 ELSE timers
    /\ term_pc' = IF term_join THEN "join" ELSE "returned"
    /\ UNCHANGED <<config, status, attempt, escalated, next_interval, shutdown, thread, pc,
                   job_raised, labels, term_join, term_target, has_queue, metrics_queue,
                   pre_status, publishes, crd>>
    /\ UNCHANGED <<ctl_vars, met_vars, tel_vars, restart_vars>>

\* self._thread.join(): self._thread is read, the caller waits for that Timer
TerminateJoin ==
    /\ term_pc = "join"
    /\ term_target' = thread
    /\ term_pc' = "joining"
    /\ UNCHANGED <<config, status, attempt, escalated, next_interval, shutdown, thread,
                   timers, pc, job_raised, labels, term_join, has_queue, metrics_queue,
                   pre_status, publishes, crd>>
    /\ UNCHANGED <<ctl_vars, met_vars, tel_vars, restart_vars>>

\* join() returns once the Timer thread has ended
TerminateReturn ==
    /\ term_pc = "joining"
    /\ Ended(term_target)
    /\ term_pc' = "returned"
    /\ UNCHANGED <<config, status, attempt, escalated, next_interval, shutdown, thread,
                   timers, pc, job_raised, labels, term_join, term_target, has_queue, metrics_queue,
                   pre_status, publishes, crd>>
    /\ UNCHANGED <<ctl_vars, met_vars, tel_vars, restart_vars>>

\* the consumer takes the head of the queue: self.q.get
QueueGet ==
    /\ metrics_queue # << >>
    /\ metrics_queue' = Tail(metrics_queue)
    /\ UNCHANGED check_vars
    /\ UNCHANGED <<ctl_vars, met_vars, tel_vars, restart_vars>>

\* the BaseCheck: its executions and the caller of terminate()
NextCheck ==
    \/ \E t \in TimerIds : CheckStart(t)
    \/ \E t \in TimerIds, result \in StatusValues : RunJobReturns(t, result)
    \/ \E t \in TimerIds : RunJobRaises(t)
    \/ \E t \in TimerIds : DeleteJobReturns(t)
    \/ \E t \in TimerIds : DeleteJobRaises(t)
    \/ \E t \in TimerIds : Decide(t)
    \/ \E t \in TimerIds : EmitMetrics(t)
    \/ \E t \in TimerIds : ReschedTest(t)
    \/ \E t \in TimerIds : StartThread(t)
    \/ \E t \in TimerIds : SetCrdStatus(t)
    \/ \E join \in BOOLEAN : TerminateMark(join)
    \/ TerminateCancel
    \/ TerminateJoin
    \/ TerminateReturn

(***************************************************************************)
(* Controller                                                              *)
(***************************************************************************)
\* the worker objects Controller.run may construct (four of them at its start)
MaxWorkers == 6

\* Controller.threads.keys(), in the order run() inserts them
UnitOrder == <<"healthcheck-thread", "metrics-handler", "event-handler", "check-handler">>

UnitNames == {UnitOrder[i] : i \in 1..Len(UnitOrder)}

\* the class run() hands to new_thread for each name
UnitCtor(name) ==
    CASE name = "healthcheck-thread" -> "checks.monitor.CheckMonitor"
      [] name = "metrics-handler" -> "metrics.thread.MetricsThread"
      [] name = "event-handler" -> "events.handler.EventHandler"
      [] OTHER -> "checks.handler.CheckHandler"

\* the keyword arguments run() hands to new_thread for each name
UnitKwargs(name) ==
    CASE name = "healthcheck-thread" -> {"kube", "interval"}
      [] name = "metrics-handler" -> {"q"}
      [] name = "event-handler" -> {"q", "kube"}
      [] OTHER -> {"q", "kube", "metrics_queue"}

\* thread.is_alive() of the worker a unit records
IsAlive(name) == workers[threads[name].thread].alive

StoredKwargsWithShutdown(kwargs) == kwargs \cup {"shutdown"}

\* self.threads[name].kwargs = kwargs
StoredKwargs(kwargs) == kwargs

\* new_thread(name, obj, **kwargs): the namespace is replaced, its flag cleared,
\* a worker constructed from obj and kwargs, named and started
new_thread(name, obj, kwargs) ==
    /\ Len(workers) < MaxWorkers
    /\ workers' = Append(workers, [name |-> name, obj |-> obj, kwargs |-> kwargs,
                                   alive |-> TRUE])
    /\ threads' = (name :> [shutdown |-> FALSE, obj |-> obj,
                            kwargs |-> StoredKwargs(kwargs),
                            thread |-> Len(workers) + 1]) @@ threads

\* the liveness loop's test of one unit
NeedsRestart(name) == ~ctl_shutdown /\ ~IsAlive(name)

\* the dead worker of each unit, 0 for a unit whose worker is running
DeadWorkers == [n \in UnitNames |-> IF IsAlive(n) THEN 0 ELSE threads[n].thread]

InitCtl ==
    /\ ctl_shutdown = FALSE
    /\ threads = << >>
    /\ workers = << >>
    /\ ctl_pc = "startup"
    /\ ctl_i = 1
    /\ pass_dead = [n \in UnitNames |-> 0]

\* a Controller that nobody runs, for the specifications of the other components
IdleCtl ==
    /\ ctl_shutdown = FALSE
    /\ threads = << >>
    /\ workers = << >>
    /\ ctl_pc = "startup"
    /\ ctl_i = 1
    /\ pass_dead = [n \in UnitNames |-> 0]

\* run(): the four new_thread calls, one at a time
Startup ==
    /\ ctl_pc = "startup"
    /\ new_thread(UnitOrder[ctl_i], UnitCtor(UnitOrder[ctl_i]), UnitKwargs(UnitOrder[ctl_i]))
    /\ IF ctl_i < Len(UnitOrder)
       THEN ctl_i' = ctl_i + 1 /\ UNCHANGED ctl_pc
       ELSE ctl_i' = 1 /\ ctl_pc' = "while"
    /\ UNCHANGED <<ctl_shutdown, pass_dead>>
    /\ UNCHANGED <<check_vars, metrics_queue, met_vars, tel_vars, restart_vars>>

\* while not self.shutdown(): one more poll, or the loop is broken
LoopTest ==
    /\ ctl_pc = "while"
    /\ ctl_i' = 1
    /\ IF ctl_shutdown
       THEN ctl_pc' = "stop" /\ UNCHANGED pass_dead
       ELSE ctl_pc' = "for" /\ pass_dead' = DeadWorkers
    /\ UNCHANGED <<ctl_shutdown, threads, workers>>
    /\ UNCHANGED <<check_vars, metrics_queue, met_vars, tel_vars, restart_vars>>

\* the for loop is over: sleep(2)
EndOfPoll ==
    /\ ctl_pc = "for"
    /\ ctl_i > Len(UnitOrder)
    /\ ctl_pc' = "sleep"
    /\ UNCHANGED <<ctl_shutdown, threads, workers, ctl_i, pass_dead>>
    /\ UNCHANGED <<check_vars, metrics_queue, met_vars, tel_vars, restart_vars>>

\* if not self.shutdown() and not self.threads[t].thread.is_alive()
Examine ==
    /\ ctl_pc = "for"
    /\ ctl_i <= Len(UnitOrder)
    /\ IF NeedsRestart(UnitOrder[ctl_i])
       THEN ctl_pc' = "restart" /\ UNCHANGED ctl_i
       ELSE ctl_i' = ctl_i + 1 /\ UNCHANGED ctl_pc
    /\ UNCHANGED <<ctl_shutdown, threads, workers, pass_dead>>
    /\ UNCHANGED <<check_vars, metrics_queue, met_vars, tel_vars, restart_vars>>

\* restart_thread(name) as the liveness loop calls it: a running worker is asked
\* to stop and waited for, then new_thread with the recorded obj and kwargs
RestartThread ==
    /\ ctl_pc = "restart"
    /\ UnitOrder[ctl_i] \in DOMAIN threads
    /\ IF IsAlive(UnitOrder[ctl_i])
       THEN /\ threads' = [threads EXCEPT ![UnitOrder[ctl_i]].shutdown = TRUE]
            /\ join_target' = threads[UnitOrder[ctl_i]].thread
            /\ ctl_pc' = "restart_join"
            /\ UNCHANGED <<workers, ctl_i>>
       ELSE /\ new_thread(UnitOrder[ctl_i], threads[UnitOrder[ctl_i]].obj,
                          threads[UnitOrder[ctl_i]].kwargs)
            /\ ctl_pc' = "for"
            /\ ctl_i' = ctl_i + 1
            /\ UNCHANGED join_target
    /\ UNCHANGED <<ctl_shutdown, pass_dead, op>>
    /\ UNCHANGED <<check_vars, metrics_queue, met_vars, tel_vars>>

\* restart_thread(name) as the liveness loop calls it, behind the join: the
\* worker it waited for has ended, new_thread with the recorded obj and kwargs
RestartJoin ==
    /\ ctl_pc = "restart_join"
    /\ ~workers[join_target].alive
    /\ new_thread(UnitOrder[ctl_i], threads[UnitOrder[ctl_i]].obj,
                  threads[UnitOrder[ctl_i]].kwargs)
    /\ ctl_pc' = "for"
    /\ ctl_i' = ctl_i + 1
    /\ UNCHANGED <<ctl_shutdown, pass_dead, restart_vars>>
    /\ UNCHANGED <<check_vars, metrics_queue, met_vars, tel_vars>>

\* sleep(2) is over
Sleep ==
    /\ ctl_pc = "sleep"
    /\ ctl_pc' = "while"
    /\ UNCHANGED <<ctl_shutdown, threads, workers, ctl_i, pass_dead>>
    /\ UNCHANGED <<check_vars, metrics_queue, met_vars, tel_vars, restart_vars>>

\* the shutdown loop: self.threads[t].shutdown = True
StopSet ==
    /\ ctl_pc = "stop"
    /\ threads' = [threads EXCEPT ![UnitOrder[ctl_i]].shutdown = TRUE]
    /\ ctl_pc' = "stop_join"
    /\ UNCHANGED <<ctl_shutdown, workers, ctl_i, pass_dead>>
    /\ UNCHANGED <<check_vars, metrics_queue, met_vars, tel_vars, restart_vars>>

\* the shutdown loop: self.threads[t].thread.join() returns
StopJoin ==
    /\ ctl_pc = "stop_join"
    /\ ~IsAlive(UnitOrder[ctl_i])
    /\ IF ctl_i < Len(UnitOrder)
       THEN ctl_i' = ctl_i + 1 /\ ctl_pc' = "stop"
       ELSE ctl_pc' = "done" /\ UNCHANGED ctl_i
    /\ UNCHANGED <<ctl_shutdown, threads, workers, pass_dead>>
    /\ UNCHANGED <<check_vars, metrics_queue, met_vars, tel_vars, restart_vars>>

\* a worker's run() ends on an exception
WorkerCrash(w) ==
    /\ w \in DOMAIN workers
    /\ workers[w].alive
    /\ workers' = [workers EXCEPT ![w].alive = FALSE]
    /\ UNCHANGED <<ctl_shutdown, threads, ctl_pc, ctl_i, pass_dead>>
    /\ UNCHANGED <<check_vars, metrics_queue, met_vars, tel_vars, restart_vars>>

\* a worker sees its shutdown predicate, lambda: self.threads[name].shutdown, and returns
WorkerStop(w) ==
    /\ w \in DOMAIN workers
    /\ workers[w].alive
    /\ threads[workers[w].name].shutdown
    /\ workers' = [workers EXCEPT ![w].alive = FALSE]
    /\ UNCHANGED <<ctl_shutdown, threads, ctl_pc, ctl_i, pass_dead>>
    /\ UNCHANGED <<check_vars, metrics_queue, met_vars, tel_vars, restart_vars>>

\* the shutdown the controller was given starts to return True
ShutdownRequested ==
    /\ ~ctl_shutdown
    /\ ctl_shutdown' = TRUE
    /\ UNCHANGED <<threads, workers, ctl_pc, ctl_i, pass_dead>>
    /\ UNCHANGED <<check_vars, metrics_queue, met_vars, tel_vars, restart_vars>>

\* Controller.terminate(): every unit's flag is set
ControllerTerminate ==
    /\ ctl_pc # "startup"
    /\ threads' = [n \in DOMAIN threads |-> [threads[n] EXCEPT !.shutdown = TRUE]]
    /\ UNCHANGED <<ctl_shutdown, workers, ctl_pc, ctl_i, pass_dead>>
    /\ UNCHANGED <<check_vars, metrics_queue, met_vars, tel_vars, restart_vars>>

\* no caller of restart_thread yet
NoOp == [pc |-> "idle", name |-> "", target |-> 0]

\* nobody but the liveness loop calls restart_thread
IdleRestart ==
    /\ join_target = 0
    /\ op = NoOp

\* the names the explicit caller passes: a unit, and a name that is no unit
CallNames == {"healthcheck-thread", "no-such-thread"}

\* restart_thread(name), called from another thread than run(): the test of the
\* name, then of is_alive(); a running worker is asked to stop
OpRestartTest(name) ==
    /\ op.pc = "idle"
    /\ IF name \notin DOMAIN threads
       THEN /\ op' = [pc |-> "done", name |-> name, target |-> 0]
            /\ UNCHANGED threads
       ELSE IF IsAlive(name)
       THEN /\ threads' = [threads EXCEPT ![name].shutdown = TRUE]
            /\ op' = [pc |-> "join", name |-> name, target |-> threads[name].thread]
       ELSE /\ op' = [pc |-> "new", name |-> name, target |-> 0]
            /\ UNCHANGED threads
    /\ UNCHANGED <<ctl_shutdown, workers, ctl_pc, ctl_i, pass_dead, join_target>>
    /\ UNCHANGED <<check_vars, metrics_queue, met_vars, tel_vars>>

\* that caller's self.threads[name].thread.join() returns
OpRestartJoin ==
    /\ op.pc = "join"
    /\ ~workers[op.target].alive
    /\ op' = [op EXCEPT !.pc = "new"]
    /\ UNCHANGED <<ctl_shutdown, threads, workers, ctl_pc, ctl_i, pass_dead, join_target>>
    /\ UNCHANGED <<check_vars, metrics_queue, met_vars, tel_vars>>

\* that caller's self.new_thread(name, obj, **kwargs)
OpRestartNew ==
    /\ op.pc = "new"
    /\ new_thread(op.name, threads[op.name].obj, threads[op.name].kwargs)
    /\ op' = [op EXCEPT !.pc = "done"]
    /\ UNCHANGED <<ctl_shutdown, ctl_pc, ctl_i, pass_dead, join_target>>
    /\ UNCHANGED <<check_vars, metrics_queue, met_vars, tel_vars>>

NextCtl ==
    \/ Startup
    \/ LoopTest
    \/ Examine
    \/ EndOfPoll
    \/ RestartThread
    \/ Sleep
    \/ StopSet
    \/ StopJoin
    \/ \E w \in 1..MaxWorkers : WorkerCrash(w)
    \/ \E w \in 1..MaxWorkers : WorkerStop(w)
    \/ ShutdownRequested
    \/ ControllerTerminate

(***************************************************************************)
(* MetricsThread                                                           *)
(***************************************************************************)
\* the items the producers may put in SpecMet
MaxPuts == 2

\* the dictionary metrics of run(): the type registered under each key
MetricType(key) ==
    CASE key = "mozalert_check_runtime" -> "Gauge"
      [] key = "mozalert_check_OK_count" -> "Counter"
      [] key = "mozalert_check_CRITICAL_count" -> "Counter"
      [] key = "mozalert_check_escalations" -> "Gauge"
      [] key = "mozalert_check_total_time" -> "Gauge"
      [] key = "mozalert_check_latency" -> "Gauge"
      [] OTHER -> "absent"

\* metric.key in metrics
Recognized(key) == MetricType(key) # "absent"

\* the keys, label sets and values the producers of SpecMet draw from
PutKeys == {"mozalert_check_runtime", "mozalert_check_OK_count",
            "mozalert_check_WARNING_count"}
PutLabels == {MakeLabels("OK", FALSE), MakeLabels("CRITICAL", TRUE)}
PutValues == {NoValue, 0, 7}

\* a queue entry that is no MetricsQueueItem
WeirdEntry == [type |-> "other", key |-> "", labels |-> NoLabels, value |-> NoValue]

PutItems ==
    {MetricsQueueItem(k, l, v) : k \in PutKeys, l \in PutLabels, v \in PutValues}
        \cup {WeirdEntry}

\* the value of the sample of key under lab; a child that labels() creates holds 0
Sample(reg, key, lab) == IF <<key, lab>> \in DOMAIN reg THEN reg[<<key, lab>>] ELSE 0

ApplyByValueOnly(reg, m) ==
    IF m.value # NoValue
    THEN (<<m.key, m.labels>> :> m.value) @@ reg
    ELSE (<<m.key, m.labels>> :> Sample(reg, m.key, m.labels) + 1) @@ reg

\* prom.labels(**metric.labels).set(metric.value), or .inc()
Apply(reg, m) ==
    IF m.value # NoValue /\ MetricType(m.key) = "Gauge"
    THEN (<<m.key, m.labels>> :> m.value) @@ reg
    ELSE (<<m.key, m.labels>> :> Sample(reg, m.key, m.labels) + 1) @@ reg

InitMet ==
    /\ gateway \in BOOLEAN
    /\ registry = << >>
    /\ met_pc = "while"
    /\ metric = WeirdEntry
    /\ met_shutdown = FALSE
    /\ sink = << >>
    /\ puts = 0

\* a MetricsThread that nobody runs, for the specifications of the other components
IdleMet ==
    /\ gateway = FALSE
    /\ registry = << >>
    /\ met_pc = "while"
    /\ metric = WeirdEntry
    /\ met_shutdown = FALSE
    /\ sink = << >>
    /\ puts = 0

\* a producer: self.metrics_queue.put(item)
Put(item) ==
    /\ puts < MaxPuts
    /\ puts' = puts + 1
    /\ metrics_queue' = Append(metrics_queue, item)
    /\ UNCHANGED <<gateway, registry, met_pc, metric, met_shutdown, sink>>
    /\ UNCHANGED <<check_vars, ctl_vars, tel_vars, restart_vars>>

\* while not self.shutdown()
MetLoopTest ==
    /\ met_pc = "while"
    /\ met_pc' = IF met_shutdown THEN "stopped" ELSE "get"
    /\ UNCHANGED <<gateway, registry, metric, met_shutdown, sink, puts, metrics_queue>>
    /\ UNCHANGED <<check_vars, ctl_vars, tel_vars, restart_vars>>

\* metric = self.q.get(timeout=3)
MetGet ==
    /\ met_pc = "get"
    /\ metrics_queue # << >>
    /\ metric' = Head(metrics_queue)
    /\ metrics_queue' = Tail(metrics_queue)
    /\ met_pc' = "handle"
    /\ UNCHANGED <<gateway, registry, met_shutdown, sink, puts>>
    /\ UNCHANGED <<check_vars, ctl_vars, tel_vars, restart_vars>>

\* queue.Empty after the timeout: sleep(1), continue
MetGetEmpty ==
    /\ met_pc = "get"
    /\ metrics_queue = << >>
    /\ met_pc' = "while"
    /\ UNCHANGED <<gateway, registry, metric, met_shutdown, sink, puts, metrics_queue>>
    /\ UNCHANGED <<check_vars, ctl_vars, tel_vars, restart_vars>>

\* the two screens, then the set or the inc, then the push if a gateway is configured
MetHandle ==
    /\ met_pc = "handle"
    /\ IF metric.type # "MetricsQueueItem" \/ ~Recognized(metric.key)
       THEN /\ met_pc' = "while"
            /\ UNCHANGED registry
       ELSE /\ registry' = Apply(registry, metric)
            /\ met_pc' = IF gateway THEN "push" ELSE "while"
    /\ UNCHANGED <<gateway, metric, met_shutdown, sink, puts, metrics_queue>>
    /\ UNCHANGED <<check_vars, ctl_vars, tel_vars, restart_vars>>

\* push_to_gateway returns: the sink holds the registry's snapshot; task_done
MetPushReturns ==
    /\ met_pc = "push"
    /\ sink' = registry
    /\ met_pc' = "while"
    /\ UNCHANGED <<gateway, registry, metric, met_shutdown, puts, metrics_queue>>
    /\ UNCHANGED <<check_vars, ctl_vars, tel_vars, restart_vars>>

\* push_to_gateway raises: nothing catches it, run() ends and with it the registry
MetPushRaises ==
    /\ met_pc = "push"
    /\ met_pc' = "crashed"
    /\ UNCHANGED <<gateway, registry, metric, met_shutdown, sink, puts, metrics_queue>>
    /\ UNCHANGED <<check_vars, ctl_vars, tel_vars, restart_vars>>

\* the shutdown the thread was given starts to return True
MetShutdownRequested ==
    /\ ~met_shutdown
    /\ met_shutdown' = TRUE
    /\ UNCHANGED <<gateway, registry, met_pc, metric, sink, puts, metrics_queue>>
    /\ UNCHANGED <<check_vars, ctl_vars, tel_vars, restart_vars>>

NextMet ==
    \/ \E item \in PutItems : Put(item)
    \/ MetLoopTest
    \/ MetGet
    \/ MetGetEmpty
    \/ MetHandle
    \/ MetPushReturns
    \/ MetPushRaises
    \/ MetShutdownRequested

(***************************************************************************)
(* BaseCheck.extract_telemetry_from_logs                                   *)
(* A text is a sequence of characters. The literal "TELEMETRY:" is one     *)
(* character of the model: it holds no digit and ends in ":", so no key    *)
(* and no value of a match can reach into it.                              *)
(***************************************************************************)
\* the longest text given to the method
MaxLogLen == 5

TelPrefix == "TELEMETRY:"
Newline == "\n"
\* the characters \s, \d and \w match
SpaceChars == {" "}
DigitChars == {"7"}
WordChars == {"k", "7"}
TelChars == {TelPrefix, Newline, " ", "k", "7", "-"}

RECURSIVE TextsOfLen(_)
TextsOfLen(n) ==
    IF n = 0 THEN { << >> }
    ELSE { Append(x, c) : x \in TextsOfLen(n - 1), c \in TelChars }

Texts == UNION { TextsOfLen(n) : n \in 0..MaxLogLen }

\* logs.split("\n"): the pieces between the newlines, at least one
RECURSIVE Split(_)
Split(text) ==
    IF \A i \in DOMAIN text : text[i] # Newline THEN << text >>
    ELSE LET i == CHOOSE j \in DOMAIN text :
                      text[j] = Newline /\ \A h \in 1..(j - 1) : text[h] # Newline
         IN << SubSeq(text, 1, i - 1) >> \o Split(SubSeq(text, i + 1, Len(text)))

\* the length of the longest run of characters of cs in line from position i on
RECURSIVE RunLen(_, _, _)
RunLen(line, i, cs) ==
    IF i <= Len(line) /\ line[i] \in cs THEN 1 + RunLen(line, i + 1, cs) ELSE 0

\* where \w+ starts: behind the prefix and the whole run of \s*
KeyStart(line) == 2 + RunLen(line, 2, SpaceChars)

\* the digits \d+ finds when the key is k characters long: the key, the whole
\* run of \s*, then the run of digits
ValStart(line, k) == KeyStart(line) + k + RunLen(line, KeyStart(line) + k, SpaceChars)
ValLen(line, k) == RunLen(line, ValStart(line, k), DigitChars)

\* the key lengths with which the pattern matches the line; the greedy \w+
\* tries the longest first and gives characters back one by one
KeyLens(line) ==
    IF line = << >> \/ Head(line) # TelPrefix THEN { }
    ELSE { k \in 1..RunLen(line, KeyStart(line), WordChars) : ValLen(line, k) >= 1 }

\* pattern.match(line): anchored at the start of the line only
Matches(line) == KeyLens(line) # { }

MatchKeyLen(line) == CHOOSE k \in KeyLens(line) : \A h \in KeyLens(line) : h <= k
MatchKey(line) == SubSeq(line, KeyStart(line), KeyStart(line) + MatchKeyLen(line) - 1)
MatchVal(line) ==
    SubSeq(line, ValStart(line, MatchKeyLen(line)),
           ValStart(line, MatchKeyLen(line)) + ValLen(line, MatchKeyLen(line)) - 1)

\* _telemetry[key] = val, the dict as the set of its items
SetItem(tel, key, val) == { p \in tel : p[1] # key } \cup { << key, val >> }

\* the loop over the lines, from the values _logs and _telemetry have reached
RECURSIVE ExtractLoop(_, _, _)
ExtractLoop(lines, logs, tel) ==
    IF lines = << >> THEN [called |-> TRUE, logs |-> logs, telemetry |-> tel]
    ELSE IF ~Matches(Head(lines))
         THEN ExtractLoop(Tail(lines), logs \o Head(lines) \o << Newline >>, tel)
         ELSE ExtractLoop(Tail(lines), logs,
                          SetItem(tel, MatchKey(Head(lines)), MatchVal(Head(lines))))

extract_telemetry_from_logs(logs) == ExtractLoop(Split(logs), << >>, { })

NotExtracted == [called |-> FALSE, logs |-> << >>, telemetry |-> { }]

InitTel ==
    /\ tel_logs \in Texts
    /\ tel_out = NotExtracted

\* the method is never called
IdleTel ==
    /\ tel_logs = << >>
    /\ tel_out = NotExtracted

\* a subclass calls the method on the logs of its job
Extract ==
    /\ ~tel_out.called
    /\ tel_out' = extract_telemetry_from_logs(tel_logs)
    /\ UNCHANGED tel_logs
    /\ UNCHANGED <<check_vars, metrics_queue, ctl_vars, met_vars, restart_vars>>

NextTel == Extract

(***************************************************************************)
(* The specifications                                                      *)
(***************************************************************************)
\* a check constructed without metrics_queue (kwargs.get("metrics_queue", None)):
\* the puts of check() are skipped, the schedule is the same
Init ==
    /\ InitCheck
    /\ has_queue = FALSE
    /\ MockCrd
    /\ metrics_queue = << >>
    /\ IdleCtl
    /\ IdleMet
    /\ IdleTel
    /\ IdleRestart

Spec == Init /\ [][NextCheck]_vars

\* the same check, from the call of its constructor on
InitBuild ==
    /\ InitUnbuilt
    /\ has_queue = FALSE
    /\ MockCrd
    /\ metrics_queue = << >>
    /\ IdleCtl
    /\ IdleMet
    /\ IdleTel
    /\ IdleRestart

\* terminate() is called on a constructed check only
NextBuild ==
    \/ Construct
    \/ \E t \in TimerIds : CheckStart(t)
    \/ \E t \in TimerIds, result \in StatusValues : RunJobReturns(t, result)
    \/ \E t \in TimerIds : RunJobRaises(t)
    \/ \E t \in TimerIds : DeleteJobReturns(t)
    \/ \E t \in TimerIds : DeleteJobRaises(t)
    \/ \E t \in TimerIds : Decide(t)
    \/ \E t \in TimerIds : EmitMetrics(t)
    \/ \E t \in TimerIds : ReschedTest(t)
    \/ \E t \in TimerIds : StartThread(t)
    \/ \E t \in TimerIds : SetCrdStatus(t)
    \/ \E join \in BOOLEAN : thread # 0 /\ TerminateMark(join)
    \/ TerminateCancel
    \/ TerminateJoin
    \/ TerminateReturn

SpecBuild == InitBuild /\ [][NextBuild]_vars

\* a check of a subclass whose set_crd_status writes the custom resource
InitCrd ==
    /\ InitUnbuilt
    /\ pre_status = NoPreStatus
    /\ has_queue = FALSE
    /\ publishes = TRUE
    /\ crd = NoCrd
    /\ metrics_queue = << >>
    /\ IdleCtl
    /\ IdleMet
    /\ IdleTel
    /\ IdleRestart

SpecCrd == InitCrd /\ [][NextBuild]_vars

\* a fresh check that was given a metrics queue, and the consumer of the queue
InitQueue ==
    /\ \E cfg \in Configs : FreshCheck(cfg)
    /\ has_queue = TRUE
    /\ MockCrd
    /\ metrics_queue = << >>
    /\ IdleCtl
    /\ IdleMet
    /\ IdleTel
    /\ IdleRestart

NextQueue ==
    \/ NextCheck
    \/ QueueGet

SpecQueue == InitQueue /\ [][NextQueue]_vars

InitCtlSpec ==
    IdleCheck /\ metrics_queue = << >> /\ InitCtl /\ IdleMet /\ IdleTel /\ IdleRestart

SpecCtl == InitCtlSpec /\ [][NextCtl]_vars

\* Controller.run and a second thread that calls restart_thread once
NextRestart ==
    \/ NextCtl
    \/ RestartJoin
    \/ \E name \in CallNames : OpRestartTest(name)
    \/ OpRestartJoin
    \/ OpRestartNew

SpecRestart == InitCtlSpec /\ [][NextRestart]_vars

InitMetSpec ==
    IdleCheck /\ metrics_queue = << >> /\ IdleCtl /\ InitMet /\ IdleTel /\ IdleRestart

SpecMet == InitMetSpec /\ [][NextMet]_vars

InitTelSpec ==
    IdleCheck /\ metrics_queue = << >> /\ IdleCtl /\ IdleMet /\ InitTel /\ IdleRestart

SpecTel == InitTelSpec /\ [][NextTel]_vars

(***************************************************************************)
(* The claims about BaseCheck, under Spec                                  *)
(***************************************************************************)
\* the step of the execution on Timer t that runs the if/elif chain
DecideStep(t) == pc[t] = "decide" /\ pc'[t] = "metrics"

\* the step in which Timer t fires and check() begins
StartStep(t) == timers[t] = "armed" /\ timers'[t] = "running"

\* C1: every execution of check() leaves next_interval = check_interval if the
\* result is OK (escalated or not), else notification_interval if the attempt
\* count after the increment is >= max_attempts, else retry_interval; nothing but
\* the result, that count and max_attempts enters, and no other step of the check
\* writes next_interval.
C1_NextIntervalPrecedence ==
    [][ /\ \A t \in TimerIds :
              DecideStep(t) =>
                  next_interval' =
                      IF status = "OK" THEN config.check_interval
                      ELSE IF attempt >= config.max_attempts
                           THEN config.notification_interval
                           ELSE config.retry_interval
        /\ next_interval' # next_interval => \E t \in TimerIds : DecideStep(t)
      ]_vars

\* C1's case: an execution has just decided a recovery (OK while escalated)
C1_Witness ==
    \E t \in TimerIds :
        /\ pc[t] = "metrics"
        /\ labels[t].escalated
        /\ status = "OK"
        /\ next_interval = config.check_interval

\* C2: escalated turns from false to true exactly at an execution whose result is
\* non-OK with attempt >= max_attempts; it turns from true to false only at an
\* execution whose result is OK, and every OK execution leaves it false.
C2_EscalatedTransitions ==
    [][ /\ \A t \in TimerIds :
              (DecideStep(t) /\ ~escalated) =>
                  (escalated' <=> (status # "OK" /\ attempt >= config.max_attempts))
        /\ \A t \in TimerIds : (DecideStep(t) /\ status = "OK") => ~escalated'
        /\ (~escalated /\ escalated') =>
              \E t \in TimerIds :
                  DecideStep(t) /\ status # "OK" /\ attempt >= config.max_attempts
        /\ (escalated /\ ~escalated') =>
              \E t \in TimerIds : DecideStep(t) /\ status = "OK"
      ]_vars

\* C2's case: an escalated check whose execution has just seen a non-OK result
C2_Witness ==
    \E t \in TimerIds :
        /\ pc[t] = "metrics"
        /\ escalated
        /\ labels[t].escalated
        /\ status # "OK"

\* C3: every execution adds one to attempt when it begins, a non-OK result keeps
\* the count (so it never decreases while the status stays non-OK, and is not
\* capped once escalated), and an OK result sets it to exactly 0; attempt
\* decreases at no other step.
C3_AttemptMonotoneAndReset ==
    [][ /\ \A t \in TimerIds : StartStep(t) => attempt' = attempt + 1
        /\ \A t \in TimerIds :
              DecideStep(t) => attempt' = IF status = "OK" THEN 0 ELSE attempt
        /\ attempt' < attempt =>
              \E t \in TimerIds : DecideStep(t) /\ status = "OK" /\ attempt' = 0
      ]_vars

\* C3's case: an escalated check that kept counting past max_attempts
C3_Witness ==
    /\ escalated
    /\ status # "OK"
    /\ attempt > config.max_attempts

\* C4: an execution in which run_job raised decides like a failed attempt: the
\* attempt count is not reset to 0 and the next interval is retry_interval or
\* notification_interval, whatever status earlier executions left behind.
C4_RaisingJobIsFailedAttempt ==
    [][ \A t \in TimerIds :
            (DecideStep(t) /\ job_raised[t]) =>
                /\ attempt' # 0
                /\ next_interval' \in {config.retry_interval, config.notification_interval}
      ]_vars

\* C5: a delete_job that raises is only logged: no execution of check() is ended
\* by it before the decision and the rescheduling (pc = "raised" is the execution
\* that delete_job's exception ended).
C5_DeleteFailureOnlyLogged ==
    \A t \in TimerIds : pc[t] # "raised" /\ timers[t] # "dead"

\* C6: once terminate() has set shutdown no Timer is armed any more, and once
\* terminate(join=True) has returned no execution of check() begins.
C6_NoRescheduleAfterShutdown ==
    [][ /\ shutdown =>
              \A t \in TimerIds : timers'[t] = "armed" => timers[t] = "armed"
        /\ (term_pc = "returned" /\ term_join) =>
              \A t \in TimerIds : ~StartStep(t)
      ]_vars

(***************************************************************************)
(* The claims about Controller, under SpecCtl                              *)
(***************************************************************************)
\* C7: a unit whose worker was dead when a liveness poll began has, when that
\* poll ends with the controller not shutting down, another worker under the same
\* name; every worker is constructed from the class and the keyword arguments
\* run() recorded for its name; a dead worker never runs again.
C7_DeadWorkerRestartedWithinPoll ==
    [][ /\ \A w \in DOMAIN workers : ~workers[w].alive => ~workers'[w].alive
        /\ \A w \in DOMAIN workers' :
              /\ workers'[w].obj = UnitCtor(workers'[w].name)
              /\ workers'[w].kwargs = UnitKwargs(workers'[w].name)
              /\ w \notin DOMAIN workers => workers'[w].alive
        /\ (ctl_pc' = "sleep" /\ ~ctl_shutdown') =>
              \A n \in UnitNames :
                  pass_dead'[n] # 0 =>
                      /\ threads'[n].thread # pass_dead'[n]
                      /\ workers'[threads'[n].thread].name = n
      ]_vars

\* C7's case: a poll that found a dead worker has ended, a worker was constructed
C7_Witness ==
    /\ ctl_pc = "sleep"
    /\ ~ctl_shutdown
    /\ Len(workers) > Len(UnitOrder)
    /\ \E n \in UnitNames : pass_dead[n] # 0 /\ threads[n].thread # pass_dead[n]

\* C8: in the shutdown of run(), whenever the controller waits for a worker
\* (join), the shutdown flag of every unit is already set.
C8_RequestAllBeforeWaitAll ==
    ctl_pc = "stop_join" => \A n \in UnitNames : threads[n].shutdown

(***************************************************************************)
(* The claims about MetricsThread, under SpecMet                           *)
(***************************************************************************)
\* the step that handles a MetricsQueueItem whose key is recognized
HandleStep ==
    /\ met_pc = "handle"
    /\ met_pc' # "handle"
    /\ metric.type = "MetricsQueueItem"
    /\ Recognized(metric.key)

\* the samples other than the one of the handled event are what they were
OtherSamplesKept ==
    \A k \in PutKeys, l \in PutLabels :
        <<k, l>> # <<metric.key, metric.labels>> =>
            Sample(registry', k, l) = Sample(registry, k, l)

\* C9: a push to the sink that fails does not end the consumer: run() never
\* leaves its loop with an exception.
C9_PushFailureDoesNotCrash ==
    met_pc # "crashed"

\* C10 as claimed: for every recognized key, under the event's labels, an event
\* with a value leaves the sample set to exactly that value, and an event without
\* one leaves it incremented by exactly 1.
C10_ValueDecidesSetOrInc ==
    [][ HandleStep =>
            IF metric.value # NoValue
            THEN Sample(registry', metric.key, metric.labels) = metric.value
            ELSE Sample(registry', metric.key, metric.labels)
                     = Sample(registry, metric.key, metric.labels) + 1
      ]_vars

\* C10 as amended: under the event's labels, an event with a value whose key is
\* registered as a gauge sets that gauge to the value; every other event of a
\* recognized key (no value, or a key registered as a counter) increments the
\* key's metric by 1; no other sample changes.
C10_GaugeWithValueSetElseInc ==
    [][ HandleStep =>
            /\ IF metric.value # NoValue /\ MetricType(metric.key) = "Gauge"
               THEN Sample(registry', metric.key, metric.labels) = metric.value
               ELSE Sample(registry', metric.key, metric.labels)
                        = Sample(registry, metric.key, metric.labels) + 1
            /\ OtherSamplesKept
      ]_vars

\* C10's case: a gauge was set to a value, and a counter was incremented by an
\* event that carried a value
C10_Witness ==
    /\ \E l \in PutLabels : Sample(registry, "mozalert_check_runtime", l) = 7
    /\ \E l \in PutLabels : Sample(registry, "mozalert_check_OK_count", l) = 1
    /\ met_pc = "while"
    /\ metric.key = "mozalert_check_OK_count"
    /\ metric.value = 7

(***************************************************************************)
(* The scenario of three failures and a recovery, under SpecScenario: a    *)
(* fresh check with a metrics queue whose run_job returns the scenario's   *)
(* results, one per execution.                                             *)
(***************************************************************************)
\* check_interval=60, retry_interval=10, notification_interval=300, max_attempts=3
ScenarioConfig ==
    [check_interval |-> 60, retry_interval |-> 10,
     notification_interval |-> 300, max_attempts |-> 3]

\* what run_job may leave in self.status.status in each execution: FAIL is any
\* status but OK
ScenarioResults ==
    << StatusValues \ {"OK"}, StatusValues \ {"OK"}, StatusValues \ {"OK"}, {"OK"} >>

\* the next_interval and the escalated flag the scenario expects after each execution
ScenarioIntervals == << 10, 10, 300, 60 >>
ScenarioEscalated == << FALSE, FALSE, TRUE, FALSE >>

\* run_job of the t-th execution returns one of the scenario's results
ScenarioRun(t) ==
    /\ t <= Len(ScenarioResults)
    /\ \E result \in ScenarioResults[t] : RunJobReturns(t, result)

InitScenario ==
    /\ InitCheck
    /\ config = ScenarioConfig
    /\ status = DefaultStatus
    /\ attempt = 0
    /\ next_interval = config.check_interval
    /\ has_queue = TRUE
    /\ MockCrd
    /\ metrics_queue = << >>
    /\ IdleCtl
    /\ IdleMet
    /\ IdleTel
    /\ IdleRestart

NextScenario ==
    \/ \E t \in TimerIds : CheckStart(t)
    \/ \E t \in TimerIds : ScenarioRun(t)
    \/ \E t \in TimerIds : DeleteJobReturns(t)
    \/ \E t \in TimerIds : DeleteJobRaises(t)
    \/ \E t \in TimerIds : Decide(t)
    \/ \E t \in TimerIds : EmitMetrics(t)
    \/ \E t \in TimerIds : ReschedTest(t)
    \/ \E t \in TimerIds : StartThread(t)
    \/ \E t \in TimerIds : SetCrdStatus(t)
    \/ \E join \in BOOLEAN : TerminateMark(join)
    \/ TerminateCancel
    \/ TerminateJoin
    \/ TerminateReturn
    \/ QueueGet

SpecScenario == InitScenario /\ [][NextScenario]_vars

\* the step in which the execution on Timer t puts its metric events
EmitStep(t) == pc[t] = "metrics" /\ pc'[t] = "resched"

\* the events that step appended to the queue
Emitted == SubSeq(metrics_queue', Len(metrics_queue) + 1, Len(metrics_queue'))

\* the event by which an execution reports a recovery: the escalations gauge,
\* labelled as escalated and carrying the value 0
IsRecoveryEvent(m) ==
    /\ m.key = "mozalert_check_escalations"
    /\ m.labels.escalated
    /\ m.value = 0

\* C11: with check_interval=60, retry_interval=10, notification_interval=300 and
\* max_attempts=3, a check that starts un-escalated at attempt 0 and whose
\* executions result in FAIL, FAIL, FAIL, OK has next_interval 10, 10, 300, 60
\* and escalated false, false, true, false after them, and puts the event that
\* reports the recovery exactly once, in the 4th execution.
C11_ScenarioSequence ==
    [][ \A t \in 1..Len(ScenarioResults) :
            /\ DecideStep(t) =>
                   /\ next_interval' = ScenarioIntervals[t]
                   /\ escalated' = ScenarioEscalated[t]
            /\ EmitStep(t) =>
                   Cardinality({ i \in DOMAIN Emitted : IsRecoveryEvent(Emitted[i]) })
                       = IF t = Len(ScenarioResults) THEN 1 ELSE 0
      ]_vars

\* C11's case: the 4th execution has just put its events, the recovery among them
C11_Witness ==
    /\ config = ScenarioConfig
    /\ pc[4] = "resched"
    /\ status = "OK"
    /\ next_interval = 60
    /\ ~escalated
    /\ \E i \in DOMAIN metrics_queue : IsRecoveryEvent(metrics_queue[i])

(***************************************************************************)
(* The claim about extract_telemetry_from_logs, under SpecTel              *)
(***************************************************************************)
\* the key and the value a reader takes from a line: the word behind the prefix,
\* and what stands behind the spaces that follow it
ReadKeyLen(line) == RunLen(line, KeyStart(line), WordChars)
ReadValStart(line) ==
    KeyStart(line) + ReadKeyLen(line)
        + RunLen(line, KeyStart(line) + ReadKeyLen(line), SpaceChars)

\* the line begins with the prefix and holds a key, spaces and something behind them
HasKeyAndValue(line) ==
    /\ line # << >>
    /\ Head(line) = TelPrefix
    /\ ReadKeyLen(line) >= 1
    /\ ReadValStart(line) > KeyStart(line) + ReadKeyLen(line)
    /\ ReadValStart(line) <= Len(line)

\* TELEMETRY: <key> <int>, the integer reaching to the end of the line
IsTelemetryLine(line) ==
    /\ HasKeyAndValue(line)
    /\ ReadValStart(line) + RunLen(line, ReadValStart(line), DigitChars) = Len(line) + 1

\* a line that is no TELEMETRY line, or a TELEMETRY line whose value does not
\* begin with a digit
IsOrdinaryLine(line) ==
    \/ line = << >>
    \/ Head(line) # TelPrefix
    \/ HasKeyAndValue(line) /\ line[ReadValStart(line)] \notin DigitChars

ReadKey(line) == SubSeq(line, KeyStart(line), KeyStart(line) + ReadKeyLen(line) - 1)
ReadVal(line) == SubSeq(line, ReadValStart(line), Len(line))

\* the lines of a text the method returned: every line is followed by a newline
OutLines(text) == SubSeq(Split(text), 1, Len(Split(text)) - 1)

\* C12: for logs whose lines are TELEMETRY: <key> <int> lines, lines without the
\* prefix, or TELEMETRY lines with a non-numeric value, the returned text holds
\* exactly the lines of the last two kinds, in their order, and the returned map
\* holds exactly the keys of the first kind, each with the digits of one of its
\* lines as a string.
C12_TelemetryExtraction ==
    tel_out.called =>
        LET lines == Split(tel_logs)
            tlines == { i \in DOMAIN lines : IsTelemetryLine(lines[i]) }
        IN  (\A i \in DOMAIN lines :
                 IsTelemetryLine(lines[i]) \/ IsOrdinaryLine(lines[i]))
            => /\ OutLines(tel_out.logs) = SelectSeq(lines, IsOrdinaryLine)
               /\ tel_out.telemetry \subseteq
                      { << ReadKey(lines[i]), ReadVal(lines[i]) >> : i \in tlines }
               /\ \A i \in tlines :
                      \E p \in tel_out.telemetry : p[1] = ReadKey(lines[i])

(***************************************************************************)
(* More claims about Controller, under SpecCtl                             *)
(***************************************************************************)
\* the step in which the liveness loop's call of restart_thread acts
LoopRestartStep == ctl_pc = "restart" /\ ctl_pc' # "restart"

\* C13: the liveness loop restarts a unit only if its worker is not running and
\* the unit's own shutdown flag is not set; it never replaces the worker of a unit
\* whose flag is set and never clears that flag.
C13_FlaggedUnitNeverRestarted ==
    [][ LoopRestartStep =>
            /\ threads'[UnitOrder[ctl_i]].thread # threads[UnitOrder[ctl_i]].thread
                   => /\ ~IsAlive(UnitOrder[ctl_i])
                      /\ ~threads[UnitOrder[ctl_i]].shutdown
            /\ \A n \in DOMAIN threads :
                   threads[n].shutdown
                       => /\ threads'[n].shutdown
                          /\ threads'[n].thread = threads[n].thread
      ]_vars

(***************************************************************************)
(* A check whose intervals are zero, under SpecZero: threading.Timer(0, ...) *)
(* runs its function as soon as the Timer is started.                      *)
(***************************************************************************)
ZeroConfig ==
    [check_interval |-> 0, retry_interval |-> 0,
     notification_interval |-> 0, max_attempts |-> 1]

InitZero ==
    /\ FreshCheck(ZeroConfig)
    /\ has_queue = FALSE
    /\ MockCrd
    /\ metrics_queue = << >>
    /\ IdleCtl
    /\ IdleMet
    /\ IdleTel
    /\ IdleRestart

SpecZero == InitZero /\ [][NextCheck]_vars

\* the executions of check() that have begun and not ended
InFlight == { t \in TimerIds : timers[t] = "running" }

\* C14: executions of the same check are never concurrent: a Timer fires the next
\* execution only after the previous one, its rescheduling and its status
\* publication included, has completed, for zero intervals too.
C14_ExecutionsNeverConcurrent == Cardinality(InFlight) <= 1

(***************************************************************************)
(* The claim about concurrent restarts, under SpecRestart                  *)
(***************************************************************************)
\* the running workers that were constructed for the unit name
LiveWorkers(name) ==
    { w \in DOMAIN workers : workers[w].alive /\ workers[w].name = name }

\* C15: restart attempts on the same unit by the liveness loop and by explicit
\* restart_thread calls are serialized: at most one running worker exists per
\* unit name, and it is the one the unit table records.
C15_OneLiveWorkerPerUnit ==
    \A name \in DOMAIN threads : LiveWorkers(name) \subseteq { threads[name].thread }

(***************************************************************************)
(* The claim about the constructor, under SpecBuild                        *)
(***************************************************************************)
\* the step in which __init__ runs
ConstructStep == thread = 0 /\ thread' = 1

\* C16: a check constructed with a prior persisted status resumes attempt,
\* next_interval and escalated from it, so a check that was escalated before the
\* restart is escalated after it; one constructed without starts with attempt 0,
\* next_interval = check_interval and escalated false.
C16_ConstructionResumesStatus ==
    [][ ConstructStep =>
            IF pre_status.given
            THEN /\ attempt' = pre_status.attempt
                 /\ next_interval' = pre_status.next_interval
                 /\ escalated' = pre_status.escalated
            ELSE /\ attempt' = 0
                 /\ next_interval' = config.check_interval
                 /\ escalated' = FALSE
      ]_vars

(***************************************************************************)
(* The claim about the published status, under SpecCrd                     *)
(***************************************************************************)
\* the step in which the execution of check() on Timer t returns, whether it
\* rescheduled or observed shutdown
ReturnStep(t) == pc[t] \in {"resched", "set_crd_status"} /\ pc'[t] = "done"

\* C17: set_crd_status is called after every status mutation: at the end of
\* construction and of every execution of check(), one that observes shutdown
\* included, the published status equals the in-memory status (attempt and
\* next_interval; next_check is set together with next_interval).
C17_PublishedEqualsInMemory ==
    [][ (ConstructStep \/ \E t \in TimerIds : ReturnStep(t))
            => /\ crd'.published
               /\ crd'.attempt = attempt'
               /\ crd'.next_interval = next_interval'
      ]_vars

(***************************************************************************)
(* The claim about the per-status counters, under SpecMet                  *)
(***************************************************************************)
\* the key of the counter event check() puts for the status st
StatusCountKey(st) == EmittedItems(NoLabels, st, FALSE)[2].key

\* C18: for every status in {OK, WARNING, CRITICAL, UNKNOWN} the key of the
\* per-status counter event is a key the consumer recognizes: handling such an
\* event increments the counter under the event's labels; it is not discarded.
C18_StatusCountersRecognized ==
    [][ ( /\ met_pc = "handle"
          /\ met_pc' # "handle"
          /\ metric.type = "MetricsQueueItem"
          /\ \E st \in StatusValues : metric.key = StatusCountKey(st) )
            => Sample(registry', metric.key, metric.labels)
                   = Sample(registry, metric.key, metric.labels) + 1
      ]_vars

(***************************************************************************)
(* The claim about the Timers of a check, under SpecBuild                  *)
(***************************************************************************)
\* the Timers that are started and have neither fired nor been cancelled
Armed == { t \in TimerIds : timers[t] = "armed" }

\* C19: a check never has more than one armed Timer that has not fired, and a
\* Timer is armed only by the constructor or by start_thread at the end of an
\* execution whose own Timer has already fired.
C19_AtMostOneArmedTimer ==
    [][ /\ Cardinality(Armed') <= 1
        /\ \A t \in Armed' \ Armed :
               \/ ConstructStep
               \/ \E u \in TimerIds :
                      /\ timers[u] = "running"
                      /\ pc[u] = "start_thread"
                      /\ pc'[u] = "set_crd_status"
      ]_vars

\* C19's case: an execution has armed the next Timer and has not returned yet
C19_Witness ==
    \E u \in TimerIds :
        /\ timers[u] = "running"
        /\ pc[u] = "set_crd_status"
        /\ Armed = { thread }
        /\ thread # u

(***************************************************************************)
(* The claim about the labels of the metric events, under SpecQueue        *)
(***************************************************************************)
\* C20: all the events one execution puts carry the same labels, whose escalated
\* label is the flag as it was before that execution's decision, while the value
\* of its mozalert_check_escalations event is the flag after the decision: an
\* escalating execution puts label false with value 1, a recovering one label
\* true with value 0.
C20_LabelBeforeValueAfter ==
    [][ \A t \in TimerIds :
            /\ DecideStep(t) => labels'[t].escalated = escalated
            /\ pc[t] = "metrics" /\ ~EmitStep(t)
                   => escalated' = escalated /\ labels'[t] = labels[t]
            /\ EmitStep(t) =>
                   /\ \A i \in DOMAIN Emitted : Emitted[i].labels = labels[t]
                   /\ \E i \in DOMAIN Emitted :
                          Emitted[i].key = "mozalert_check_escalations"
                   /\ \A i \in DOMAIN Emitted :
                          Emitted[i].key = "mozalert_check_escalations"
                              => Emitted[i].value = IF escalated THEN 1 ELSE 0
      ]_vars

\* C20's case: an escalating execution has just put its events
C20_Witness ==
    \E t \in TimerIds :
        /\ pc[t] = "resched"
        /\ escalated
        /\ \E i \in DOMAIN metrics_queue :
               /\ metrics_queue[i].key = "mozalert_check_escalations"
               /\ ~metrics_queue[i].labels.escalated
               /\ metrics_queue[i].value = 1

====
